---------------------------- MODULE Spec2Model ----------------------------
(***************************************************************************)
(* Model of the Google Search Console SDK client (client.py): the          *)
(* low-level HTTP executor GSCClient._request with its retry/backoff loop  *)
(* and error classification, and the high-level methods that call it.      *)
(*                                                                         *)
(* One step of the model is one iteration of the `while True` loop of      *)
(* _request: the transport call, the classification of the response, and   *)
(* (on a retry) the blocking sleep and the doubling of the backoff.  The   *)
(* transport is the environment: each attempt receives an arbitrary        *)
(* response (status, Retry-After header, body).  Cases in which the        *)
(* transport itself raises instead of returning a response are not part    *)
(* of the model.                                                           *)
(***************************************************************************)
EXTENDS Integers, Sequences, FiniteSets, TLC

VARIABLES
    session,    \* the client: token, timeout and session headers
    pc,         \* position of the caller: "idle", "running" (inside _request), "done"
    op,         \* the high-level method that issued the current call
    desc,       \* arguments of _request: method, url, json_body
    attempts,   \* local `attempts` of _request
    backoff,    \* local `backoff` of _request
    firstSent,  \* what the transport was given on attempt 1 of this call
    lastSent,   \* what the transport was given on the latest attempt
    lastResp,   \* the response of the latest attempt
    message,    \* local `message` after the latest error extraction
    reason,     \* local `reason` after the latest error extraction
    nsleeps,    \* number of time.sleep calls that returned in this call
    lastSleep,  \* duration of the latest sleep of this call
    outcome,    \* what _request returned or raised
    returned,   \* what the entry point handed to its caller
    xbody,      \* error extraction on its own: the body it is applied to
    xresult,    \* error extraction on its own: the message and reason it gave
    calls,      \* parallel callers of one client: the locals of each one's _request
    authorization,  \* the Authorization header value handed to get_client
    dep         \* what get_client returned or raised

vars == <<session, pc, op, desc, attempts, backoff, firstSent, lastSent,
          lastResp, message, reason, nsleeps, lastSleep, outcome, returned,
          xbody, xresult, calls, authorization, dep>>

\* the variables of the other specifications of this module
aux == <<xbody, xresult, calls, authorization, dep>>

-----------------------------------------------------------------------------
(* Bounds of the model *)

\* The numeric Retry-After value (seconds) the environment may send, besides 0.
RetryAfterSecs == 3

\* The number of pieces (words, whitespace characters) an Authorization
\* header value is put together from.
MaxChunks == 5

-----------------------------------------------------------------------------
(* Program constants *)

DEFAULT_TIMEOUT == 30

\* fastapi.status.HTTP_401_UNAUTHORIZED
HTTP_401_UNAUTHORIZED == 401

\* `if attempts <= 5` : retries allowed after the first attempt
MaxRetries == 5

\* `backoff = 1.0`
InitialBackoff == 1

\* `max_backoff = 16.0`
max_backoff == 16

-----------------------------------------------------------------------------
(* Python / JSON values.  A value is [k, s]: k is its kind and s its       *)
(* content.  Kind "none" is Python None (a JSON null or a missing key read  *)
(* with dict.get).                                                          *)

JV(kind, content) == [k |-> kind, s |-> content]

None == JV("none", "")

\* bool(v) in Python
Truthy(v) ==
    CASE v.k = "none" -> FALSE
      [] v.k = "str"  -> v.s # ""
      [] v.k = "num"  -> v.s # "0"
      [] v.k = "bool" -> v.s = "true"
      [] v.k = "list" -> v.s # "[]"
      [] v.k = "obj"  -> v.s # "{}"
      [] OTHER        -> TRUE

\* `a or b` in Python
Or(a, b) == IF Truthy(a) THEN a ELSE b


Absent == JV("absent", "")

\* dict.get(key): a missing key reads as None
Get(v) == IF v.k = "absent" THEN None ELSE v

-----------------------------------------------------------------------------
(* Response bodies.                                                        *)
(*   kind    "empty" (no content), "text" (content that is not JSON),      *)
(*           "json" (content that parses as JSON)                          *)
(*   text    resp.text, the raw body                                       *)
(*   top     kind of the parsed top-level value ("obj" for a JSON object)  *)
(*   error   the top-level "error" member: its kind, and when it is an     *)
(*           object its "message" member and its "errors" member           *)
(*   message the top-level "message" member                                *)
(* "errors" is [k, len, first]: its kind, its length when it is a list,    *)
(* and its first element [k, reason].                                      *)

NoFirst == [k |-> "absent", reason |-> Absent]

NoErrors == [k |-> "absent", len |-> 0, first |-> NoFirst]

NoError == [k |-> "absent", message |-> Absent, errors |-> NoErrors]

ErrorsList(reasonValue) ==
    [k |-> "list", len |-> 1, first |-> [k |-> "obj", reason |-> reasonValue]]

ErrorObj(msg, errs) == [k |-> "obj", message |-> msg, errors |-> errs]

EmptyBody == [kind |-> "empty", text |-> "", top |-> "none",
              error |-> NoError, message |-> Absent]

TextBody(t) == [kind |-> "text", text |-> t, top |-> "none",
                error |-> NoError, message |-> Absent]

JsonBody(t, topKind, err, msg) ==
    [kind |-> "json", text |-> t, top |-> topKind, error |-> err, message |-> msg]

\* The bodies the environment sends in the executor's specification.
Bodies ==
    { EmptyBody,
      TextBody("<html>Bad Gateway</html>"),
      JsonBody("[1]", "list", NoError, Absent),
      JsonBody("{\"rows\": []}", "obj", NoError, Absent),
      JsonBody("{\"error\": {\"message\": \"rate limit\", \"errors\": [{\"reason\": \"quota\"}]}}",
               "obj",
               ErrorObj(JV("str", "rate limit"), ErrorsList(JV("str", "quota"))),
               Absent) }

\* resp.content is truthy
HasContent(body) == body.kind # "empty"

\* resp.json() raises (the content is not JSON)
JsonRaises(body) == body.kind # "json"

\* resp.json(): the parsed value, without the raw text
Json(body) == [top |-> body.top, error |-> body.error, message |-> body.message]

\* the empty mapping {}
EmptyMapping == [top |-> "obj", error |-> NoError, message |-> Absent]

\* resp.text as a Python string
Text(body) == JV("str", body.text)

-----------------------------------------------------------------------------
(* Error extraction: the try/except block of _request.  Any exception in   *)
(* the try block (resp.json() raising, `.get` on a value that is not a     *)
(* dict) ends in the except branch: message = resp.text, reason = None.    *)

\* err.get("error", {}).get("message") raises AttributeError
ErrorGetRaises(body) ==
    \/ body.top # "obj"
    \/ body.error.k \notin {"absent", "obj"}

\* err.get("error", {}).get("message")
NestedMessage(body) ==
    IF body.error.k = "obj" THEN Get(body.error.message) ELSE None

\* bool(reasons) for reasons = err["error"].get("errors") or []
ReasonsTruthy(errs) ==
    CASE errs.k \in {"absent", "none"} -> FALSE
      [] errs.k = "list"               -> errs.len > 0
      [] OTHER                         -> TRUE

\* mutant: reasons[0] is read without checking that the list is not empty;
\* the IndexError ends in the except branch, which resets the message
ExtractMessage_ReasonRaises(body) ==
    IF \/ JsonRaises(body)
       \/ ErrorGetRaises(body)
       \/ (body.error.k = "obj" /\ body.error.errors.k = "list"
              /\ body.error.errors.len = 0)
    THEN Text(body)
    ELSE Or(Or(NestedMessage(body), Get(body.message)), Text(body))

ExtractMessage(body) ==
    IF JsonRaises(body) \/ ErrorGetRaises(body)
    THEN Text(body)
    ELSE Or(Or(NestedMessage(body), Get(body.message)), Text(body))

ExtractReason(body) ==
    IF JsonRaises(body) \/ ErrorGetRaises(body)
    THEN None
    ELSE IF body.error.k = "obj"
            /\ ReasonsTruthy(body.error.errors)
            /\ body.error.errors.k = "list"
            /\ body.error.errors.first.k = "obj"
         THEN Get(body.error.errors.first.reason)
         ELSE None

\* the locals `message` and `reason` after the try/except block
Extracted(body) ==
    [done |-> TRUE, message |-> ExtractMessage(body), reason |-> ExtractReason(body)]

NoExtract == [done |-> FALSE, message |-> None, reason |-> None]

\* Error bodies of every shape the extraction distinguishes
NestedMessages == {Absent, None, JV("str", ""), JV("str", "nested")}

TopMessages == {Absent, JV("str", ""), JV("str", "top")}

ErrorsValues ==
    { NoErrors,
      [k |-> "none", len |-> 0, first |-> NoFirst],
      [k |-> "str", len |-> 0, first |-> NoFirst],
      [k |-> "obj", len |-> 0, first |-> NoFirst],
      [k |-> "list", len |-> 0, first |-> NoFirst],
      [k |-> "list", len |-> 1, first |-> [k |-> "str", reason |-> Absent]],
      [k |-> "list", len |-> 1, first |-> [k |-> "obj", reason |-> Absent]],
      ErrorsList(JV("str", "quota")) }

ErrorValues ==
    { [k |-> kind, message |-> Absent, errors |-> NoErrors] :
          kind \in {"absent", "none", "str", "list"} }
    \cup { ErrorObj(m, e) : m \in NestedMessages, e \in ErrorsValues }

ErrorBodies ==
    { JsonBody("<raw text>", "obj", e, m) : e \in ErrorValues, m \in TopMessages }
    \cup { EmptyBody,
           TextBody("<html>Bad Gateway</html>"),
           JsonBody("[1]", "list", NoError, Absent),
           JsonBody("\"down\"", "str", NoError, Absent) }

-----------------------------------------------------------------------------
(* Responses *)

Statuses == {200, 204, 300, 401, 404, 429, 500, 599}

RA(kind, n) == [k |-> kind, n |-> n]

\* The Retry-After header: absent, a number (possibly negative), or text
\* that float() rejects, such as an HTTP-date.
RetryAfterValues ==
    { RA("absent", 0), RA("num", 0), RA("num", RetryAfterSecs), RA("num", -1),
      RA("text", 0) }

Responses == [status : Statuses, retry_after : RetryAfterValues, body : Bodies]

NoResponse == [status |-> 0, retry_after |-> RA("absent", 0), body |-> EmptyBody]

Is2xx(status) == 200 <= status /\ status < 300

\* mutant: the retryable range starts at 400 instead of 500
Is5xx_From400(status) == 400 <= status /\ status < 600

Is5xx(status) == 500 <= status /\ status < 600

\* float(resp.headers.get("Retry-After", backoff)) raises ValueError
FloatRaises(ra) == ra.k = "text"

\* float(resp.headers.get("Retry-After", backoff))
SleepFor(ra, currentBackoff) == IF ra.k = "absent" THEN currentBackoff ELSE ra.n

\* time.sleep(secs) raises ValueError for a negative argument
SleepRaises(secs) == secs < 0

Min(a, b) == IF a <= b THEN a ELSE b

\* mutant: the backoff grows by one instead of doubling
NextBackoff_Linear(b) == Min(b + 1, max_backoff)

\* mutant: the doubling is not capped
NextBackoff_NoCap(b) == b * 2

NextBackoff(b) == Min(b * 2, max_backoff)

\* mutant: the retry ceiling is off by one
MayRetry_OffByOne(n) == n <= MaxRetries + 1

\* `attempts <= 5`
MayRetry(n) == n <= MaxRetries

-----------------------------------------------------------------------------
(* Outcomes of _request: the returned value or the raised exception.       *)
(*   type    "Success" or the class of the exception                       *)
(*   attrs   the attributes the exception object carries                   *)
(*   status, reason   the ApiError attributes (meaningful when in attrs)   *)
(*   prefix, message  the exception's message argument: prefix + message   *)
(*   value   the returned value of a Success                               *)

NoOutcome ==
    [type |-> "none", attrs |-> {}, status |-> 0, prefix |-> "",
     message |-> None, reason |-> None, value |-> EmptyMapping]

Success(v) ==
    [type |-> "Success", attrs |-> {}, status |-> 0, prefix |-> "",
     message |-> None, reason |-> None, value |-> v]

\* an exception of a class without an __init__ of its own: only the message
PlainException(class, prefix, msg) ==
    [type |-> class, attrs |-> {"args"}, status |-> 0, prefix |-> prefix,
     message |-> msg, reason |-> None, value |-> EmptyMapping]

\* AuthError(f"Unauthorized: {message}")
AuthError(msg) == PlainException("AuthError", "Unauthorized: ", msg)

\* ApiError.__init__(status, message, reason), shared by its subclasses
ApiErrorOf(class, status, msg, rsn) ==
    [type |-> class, attrs |-> {"args", "status", "reason", "details"},
     status |-> status, prefix |-> "", message |-> msg, reason |-> rsn,
     value |-> EmptyMapping]

\* mutant: the reason is not handed to the exception
RateLimitError_NoReason(status, msg, rsn) == ApiErrorOf("RateLimitError", status, msg, None)

RateLimitError(status, msg, rsn) == ApiErrorOf("RateLimitError", status, msg, rsn)

\* mutant: the 5xx branch raises the class of the 429 branch
RetryableError_AsRateLimit(status, msg, rsn) == ApiErrorOf("RateLimitError", status, msg, rsn)

RetryableError(status, msg, rsn) == ApiErrorOf("RetryableError", status, msg, rsn)

ApiError(status, msg, rsn) == ApiErrorOf("ApiError", status, msg, rsn)

\* exceptions of the Python runtime that _request does not catch
ValueError == PlainException("ValueError", "", None)

JSONDecodeError == PlainException("JSONDecodeError", "", None)

TypedErrors == {"AuthError", "RateLimitError", "RetryableError", "ApiError"}

-----------------------------------------------------------------------------
(* The client *)

Tokens == {"test-token"}

\* the `timeout` argument of the constructor; 0 stands for None
TimeoutArgs == {0, 10}

\* GSCClient.__init__
GSCClient(access_token, timeout) ==
    [token   |-> access_token,
     timeout |-> IF timeout # 0 THEN timeout ELSE DEFAULT_TIMEOUT,
     headers |-> [Authorization |-> <<"Bearer ", access_token>>,
                  Accept        |-> "application/json",
                  ContentType   |-> "application/json"]]

\* requests.utils.quote(s, safe='')
Quote(s) == <<"quote", s>>

SiteUrl == "https://example.com/"

Feedpath == "sitemap.xml"

\* SearchAnalyticsQueryRequest.to_dict()
Payload == [startDate |-> "2025-07-01", endDate |-> "2025-07-31"]

NoBody == [startDate |-> "", endDate |-> ""]

Descriptor(method, url, json_body) ==
    [method |-> method, url |-> url, json_body |-> json_body]

NoDescriptor == Descriptor("", <<>>, NoBody)

\* mutant: a retry is sent without the JSON body
SendArgs_NoBodyOnRetry(d, s) ==
    [method |-> d.method, url |-> d.url,
     json |-> IF attempts = 0 THEN d.json_body ELSE NoBody, timeout |-> s.timeout]

\* self._session.request(method, url, json=json_body, timeout=self._timeout)
SendArgs(d, s) ==
    [method |-> d.method, url |-> d.url, json |-> d.json_body, timeout |-> s.timeout]

NoSend == SendArgs(NoDescriptor, [timeout |-> 0])

-----------------------------------------------------------------------------
(* What an entry point hands to its caller once _request is over.          *)
(*   kind  "return" or "raise"                                             *)
(*   what  the returned value: "None", "mapping" (the value _request      *)
(*         returned), "SearchAnalyticsQueryResponse", "status deleted"     *)
(*         (the mapping {"status": "deleted"}); or the exception's class   *)
(*   of    the outcome of _request the value or exception comes from       *)

NothingYet == [kind |-> "none", what |-> "", of |-> NoOutcome]

\* an exception of _request is not caught by any entry point
Raised(o) == [kind |-> "raise", what |-> o.type, of |-> o]

ReturnedValue(what, o) == [kind |-> "return", what |-> what, of |-> o]

\* `return None`
ReturnedNone == ReturnedValue("None", NoOutcome)

\* `return {"status": "deleted"}`
StatusDeleted == ReturnedValue("status deleted", NoOutcome)

\* SearchAnalyticsQueryResponse.from_dict(data): d.get on a value that is
\* not a dict raises AttributeError
FromDict(o) ==
    IF o.value.top = "obj"
    THEN ReturnedValue("SearchAnalyticsQueryResponse", o)
    ELSE Raised(PlainException("AttributeError", "", None))

\* GSCClient.sitemaps_delete / sites_add: `self._request(...); return None`
sitemaps_delete_return(o) ==
    IF o.type = "Success" THEN ReturnedNone ELSE Raised(o)

\* mutant: the utility reports the deletion whatever the call did
delete_sitemap_util_return_Always(o) == StatusDeleted

\* delete_sitemap_util: `client.sitemaps_delete(...); return {"status": "deleted"}`
delete_sitemap_util_return(o) ==
    IF sitemaps_delete_return(o).kind = "raise"
    THEN sitemaps_delete_return(o)
    ELSE StatusDeleted

\* the value or exception the entry point `name` hands to its caller
Return(name, o) ==
    CASE name = "delete_sitemap_util" -> delete_sitemap_util_return(o)
      [] name \in {"sitemaps_delete", "sites_add"} -> sitemaps_delete_return(o)
      [] name = "search_analytics_query" ->
            IF o.type = "Success" THEN FromDict(o) ELSE Raised(o)
      [] OTHER -> IF o.type = "Success" THEN ReturnedValue("mapping", o) ELSE Raised(o)

-----------------------------------------------------------------------------
(* get_client: a client from the Authorization header of a request.  A str *)
(* is a sequence of characters.                                            *)

\* the header is missing: the parameter keeps its default, None
NoHeader == [present |-> FALSE, s |-> <<>>]

\* the header is present with the value s
HeaderValue(s) == [present |-> TRUE, s |-> s]

\* the pieces header values are put together from
Chunks ==
    { <<"B", "e", "a", "r", "e", "r">>,
      <<"b", "e", "a", "r", "e", "r">>,
      <<"b", "E", "A", "R", "E", "R">>,
      <<"B", "a", "s", "i", "c">>,
      <<"t", "0", "K">>,
      <<" ">>,
      <<"\t">> }

RECURSIVE Strings(_)
\* the strings put together from at most n pieces
Strings(n) ==
    IF n = 0
    THEN {<< >>}
    ELSE LET shorter == Strings(n - 1)
         IN  shorter \cup {p \o c : p \in shorter, c \in Chunks}

\* the values of the `authorization` parameter
HeaderValues == {NoHeader} \cup {HeaderValue(s) : s \in Strings(MaxChunks)}

\* the characters str.split() separates on
Whitespace == {" ", "\t"}

\* str.lower() on one character
LowerChar(c) ==
    CASE c = "B" -> "b"
      [] c = "E" -> "e"
      [] c = "A" -> "a"
      [] c = "R" -> "r"
      [] c = "K" -> "k"
      [] OTHER   -> c

\* str.lower()
lower(s) == [i \in 1..Len(s) |-> LowerChar(s[i])]

RECURSIVE SplitFrom(_, _, _, _)
\* the scan of str.split(): cur is the word being read, acc the words read
SplitFrom(s, i, cur, acc) ==
    IF i > Len(s)
    THEN IF cur = << >> THEN acc ELSE Append(acc, cur)
    ELSE IF s[i] \in Whitespace
         THEN SplitFrom(s, i + 1, << >>,
                        IF cur = << >> THEN acc ELSE Append(acc, cur))
         ELSE SplitFrom(s, i + 1, Append(cur, s[i]), acc)

RECURSIVE SplitEach(_, _, _, _)
\* the scan of s.split(" "): every separator ends a word, empty or not
SplitEach(s, i, cur, acc) ==
    IF i > Len(s)
    THEN Append(acc, cur)
    ELSE IF s[i] \in Whitespace
         THEN SplitEach(s, i + 1, << >>, Append(acc, cur))
         ELSE SplitEach(s, i + 1, Append(cur, s[i]), acc)

\* mutant: every single separator splits, so that words may be empty
split_EachSeparator(s) == SplitEach(s, 1, << >>, << >>)

\* authorization.split(): the maximal runs of non-whitespace characters
split(s) == SplitFrom(s, 1, << >>, << >>)

bearer == <<"b", "e", "a", "r", "e", "r">>

NoClient == [token |-> << >>, timeout |-> 0,
             headers |-> [Authorization |-> << >>, Accept |-> "", ContentType |-> ""]]

\* get_client has not been called
NoDep == [kind |-> "none", status_code |-> 0, detail |-> "", client |-> NoClient]

\* raise HTTPException(status_code=..., detail=...)
HTTPException(status_code, detail) ==
    [kind |-> "HTTPException", status_code |-> status_code, detail |-> detail,
     client |-> NoClient]

\* return GSCClient(access_token=token)
ReturnClient(client) ==
    [kind |-> "client", status_code |-> 0, detail |-> "", client |-> client]

\* get_client(authorization)
get_client(value) ==
    IF ~value.present \/ value.s = << >>
    THEN HTTPException(HTTP_401_UNAUTHORIZED, "Missing Authorization header")
    ELSE LET parts == split(value.s)
         IN  IF Len(parts) # 2 \/ lower(parts[1]) # bearer
             THEN HTTPException(HTTP_401_UNAUTHORIZED,
                                "Invalid Authorization header format")
             ELSE LET token == parts[2]
                  IN  IF token = << >>
                      THEN HTTPException(HTTP_401_UNAUTHORIZED, "Empty bearer token")
                      ELSE ReturnClient(GSCClient(token, 0))

-----------------------------------------------------------------------------
(* Parallel callers of one client.  Each invocation of _request has its    *)
(* own locals (attempts, backoff, resp, ...); the callers share the        *)
(* client's session, which _request only reads.                            *)

Callers == {"caller1", "caller2"}

\* the locals of an invocation that has not started
IdleCall ==
    [pc |-> "idle", attempts |-> 0, backoff |-> InitialBackoff, nsleeps |-> 0,
     lastSleep |-> 0, lastResp |-> NoResponse, outcome |-> NoOutcome]

\* `backoff = 1.0; max_backoff = 16.0; attempts = 0`
NewCall == [IdleCall EXCEPT !.pc = "running"]

NoCalls == [t \in Callers |-> IdleCall]

\* the responses the environment sends to parallel callers
ConcurrentResponses ==
    [status : {200, 401, 429, 500},
     retry_after : RetryAfterValues \ {RA("num", 0)},
     body : {EmptyBody}]

\* mutant: the backoff is kept in one place that all callers share
Locals_SharedBackoff(t) == [calls[t] EXCEPT !.backoff = calls["caller1"].backoff]

\* the locals of caller t's invocation
Locals(t) == calls[t]

\* one iteration of the loop of _request on the locals c, for the response
\* resp: the same branches as the actions Attempt... below
Iterate(c, resp) ==
    LET n == c.attempts + 1
        msg == ExtractMessage(resp.body)
        rsn == ExtractReason(resp.body)
        got == [c EXCEPT !.attempts = n, !.lastResp = resp]
        fin(o) == [got EXCEPT !.pc = "done", !.outcome = o]
        slp(d) == IF SleepRaises(d)
                  THEN fin(ValueError)
                  ELSE [got EXCEPT !.nsleeps = @ + 1, !.lastSleep = d,
                                   !.backoff = NextBackoff(@)]
    IN  IF Is2xx(resp.status)
        THEN IF HasContent(resp.body)
             THEN IF JsonRaises(resp.body)
                  THEN fin(JSONDecodeError)
                  ELSE fin(Success(Json(resp.body)))
             ELSE fin(Success(EmptyMapping))
        ELSE IF resp.status = 401
        THEN fin(AuthError(msg))
        ELSE IF resp.status = 429
        THEN IF MayRetry(n)
             THEN IF FloatRaises(resp.retry_after)
                  THEN fin(ValueError)
                  ELSE slp(SleepFor(resp.retry_after, c.backoff))
             ELSE fin(RateLimitError(resp.status, msg, rsn))
        ELSE IF Is5xx(resp.status)
        THEN IF MayRetry(n)
             THEN slp(c.backoff)
             ELSE fin(RetryableError(resp.status, msg, rsn))
        ELSE fin(ApiError(resp.status, msg, rsn))

-----------------------------------------------------------------------------
(* Initial state: a constructed client, no call in progress *)

ClientInit ==
    /\ session \in {GSCClient(t, to) : t \in Tokens, to \in TimeoutArgs}
    /\ pc = "idle"
    /\ op = "none"
    /\ desc = NoDescriptor
    /\ attempts = 0
    /\ backoff = InitialBackoff
    /\ firstSent = NoSend
    /\ lastSent = NoSend
    /\ lastResp = NoResponse
    /\ message = None
    /\ reason = None
    /\ nsleeps = 0
    /\ lastSleep = 0
    /\ outcome = NoOutcome
    /\ returned = NothingYet

Init ==
    /\ ClientInit
    /\ xbody = EmptyBody
    /\ xresult = NoExtract
    /\ calls = NoCalls
    /\ authorization = NoHeader
    /\ dep = NoDep

-----------------------------------------------------------------------------
(* Entry of _request: `backoff = 1.0; max_backoff = 16.0; attempts = 0`.   *)
(* A new call starts when the caller is not inside another one.            *)

Request(name, method, url, json_body) ==
    /\ pc \in {"idle", "done"}
    /\ pc' = "running"
    /\ op' = name
    /\ desc' = Descriptor(method, url, json_body)
    /\ attempts' = 0
    /\ backoff' = InitialBackoff
    /\ firstSent' = NoSend
    /\ lastSent' = NoSend
    /\ lastResp' = NoResponse
    /\ message' = None
    /\ reason' = None
    /\ nsleeps' = 0
    /\ lastSleep' = 0
    /\ outcome' = NoOutcome
    /\ returned' = NothingYet
    /\ UNCHANGED <<session, aux>>

search_analytics_query ==
    Request("search_analytics_query", "POST",
            <<"sites", Quote(SiteUrl), "searchAnalytics", "query">>, Payload)

sites_list == Request("sites_list", "GET", <<"sites">>, NoBody)

sites_add == Request("sites_add", "PUT", <<"sites", Quote(SiteUrl)>>, NoBody)

sites_get == Request("sites_get", "GET", <<"sites", Quote(SiteUrl)>>, NoBody)

sitemaps_list ==
    Request("sitemaps_list", "GET", <<"sites", Quote(SiteUrl), "sitemaps">>, NoBody)

sitemaps_submit ==
    Request("sitemaps_submit", "PUT",
            <<"sites", Quote(SiteUrl), "sitemaps", Quote(Feedpath)>>, NoBody)

sitemaps_delete ==
    Request("sitemaps_delete", "DELETE",
            <<"sites", Quote(SiteUrl), "sitemaps", Quote(Feedpath)>>, NoBody)

\* api/sitemaps.py: delete_sitemap_util calls client.sitemaps_delete
delete_sitemap_util ==
    Request("delete_sitemap_util", "DELETE",
            <<"sites", Quote(SiteUrl), "sitemaps", Quote(Feedpath)>>, NoBody)

-----------------------------------------------------------------------------
(* One iteration of the loop of _request *)

\* `attempts += 1; resp = self._session.request(...)`
Exchange(resp) ==
    /\ pc = "running"
    /\ attempts' = attempts + 1
    /\ lastSent' = SendArgs(desc, session)
    /\ firstSent' = IF attempts = 0 THEN SendArgs(desc, session) ELSE firstSent
    /\ lastResp' = resp
    /\ UNCHANGED <<session, op, desc, aux>>

\* the try/except block that sets message and reason
Extract(resp) ==
    /\ message' = ExtractMessage(resp.body)
    /\ reason' = ExtractReason(resp.body)

\* `return` or `raise`: the call is over
Finish(o) ==
    /\ pc' = "done"
    /\ outcome' = o
    /\ returned' = Return(op, o)
    /\ UNCHANGED <<backoff, nsleeps, lastSleep>>

\* `time.sleep(sleep_for); backoff = min(backoff * 2, max_backoff); continue`
SleepAndContinue(sleep_for) ==
    IF SleepRaises(sleep_for)
    THEN Finish(ValueError)
    ELSE /\ nsleeps' = nsleeps + 1
         /\ lastSleep' = sleep_for
         /\ backoff' = NextBackoff(backoff)
         /\ UNCHANGED <<pc, outcome, returned>>

\* `if 200 <= resp.status_code < 300`
AttemptSuccess ==
    \E resp \in Responses :
        /\ Is2xx(resp.status)
        /\ Exchange(resp)
        /\ UNCHANGED <<message, reason>>
        /\ IF HasContent(resp.body)
           THEN IF JsonRaises(resp.body)
                THEN Finish(JSONDecodeError)
                ELSE Finish(Success(Json(resp.body)))
           ELSE Finish(Success(EmptyMapping))

\* mutant: a 401 is retried with backoff like a 5xx
AttemptUnauthorized_Retried ==
    \E resp \in Responses :
        /\ ~Is2xx(resp.status)
        /\ resp.status = 401
        /\ Exchange(resp)
        /\ Extract(resp)
        /\ IF MayRetry(attempts')
           THEN SleepAndContinue(backoff)
           ELSE Finish(AuthError(message'))

\* `if resp.status_code == 401`
AttemptUnauthorized ==
    \E resp \in Responses :
        /\ ~Is2xx(resp.status)
        /\ resp.status = 401
        /\ Exchange(resp)
        /\ Extract(resp)
        /\ Finish(AuthError(message'))

\* `if resp.status_code == 429`
AttemptRateLimited ==
    \E resp \in Responses :
        /\ ~Is2xx(resp.status)
        /\ resp.status # 401
        /\ resp.status = 429
        /\ Exchange(resp)
        /\ Extract(resp)
        /\ IF MayRetry(attempts')
           THEN IF FloatRaises(resp.retry_after)
                THEN Finish(ValueError)
                ELSE SleepAndContinue(SleepFor(resp.retry_after, backoff))
           ELSE Finish(RateLimitError(resp.status, message', reason'))

\* mutant: a 5xx retry takes its sleep from the Retry-After header
AttemptServerError_UsesHeader ==
    \E resp \in Responses :
        /\ ~Is2xx(resp.status)
        /\ resp.status \notin {401, 429}
        /\ Is5xx(resp.status)
        /\ Exchange(resp)
        /\ Extract(resp)
        /\ IF MayRetry(attempts')
           THEN IF FloatRaises(resp.retry_after)
                THEN Finish(ValueError)
                ELSE SleepAndContinue(SleepFor(resp.retry_after, backoff))
           ELSE Finish(RetryableError(resp.status, message', reason'))

\* mutant: the 5xx branch sleeps before it checks the retry ceiling
AttemptServerError_SleepsBeforeRaise ==
    \E resp \in Responses :
        /\ ~Is2xx(resp.status)
        /\ resp.status \notin {401, 429}
        /\ Is5xx(resp.status)
        /\ Exchange(resp)
        /\ Extract(resp)
        /\ IF MayRetry(attempts')
           THEN SleepAndContinue(backoff)
           ELSE /\ nsleeps' = nsleeps + 1
                /\ lastSleep' = backoff
                /\ backoff' = NextBackoff(backoff)
                /\ pc' = "done"
                /\ outcome' = RetryableError(resp.status, message', reason')
                /\ returned' = Return(op, outcome')

\* `if 500 <= resp.status_code < 600`
AttemptServerError ==
    \E resp \in Responses :
        /\ ~Is2xx(resp.status)
        /\ resp.status \notin {401, 429}
        /\ Is5xx(resp.status)
        /\ Exchange(resp)
        /\ Extract(resp)
        /\ IF MayRetry(attempts')
           THEN SleepAndContinue(backoff)
           ELSE Finish(RetryableError(resp.status, message', reason'))

\* the final `raise ApiError(...)`
AttemptOther ==
    \E resp \in Responses :
        /\ ~Is2xx(resp.status)
        /\ resp.status \notin {401, 429}
        /\ ~Is5xx(resp.status)
        /\ Exchange(resp)
        /\ Extract(resp)
        /\ Finish(ApiError(resp.status, message', reason'))

Next ==
    \/ search_analytics_query
    \/ sites_list
    \/ sites_add
    \/ sites_get
    \/ sitemaps_list
    \/ sitemaps_submit
    \/ sitemaps_delete
    \/ delete_sitemap_util
    \/ AttemptSuccess
    \/ AttemptUnauthorized
    \/ AttemptRateLimited
    \/ AttemptServerError
    \/ AttemptOther

Spec == Init /\ [][Next]_vars

-----------------------------------------------------------------------------
(* Parallel callers: their iterations interleave in any order *)

ConcurrentInit ==
    /\ ClientInit
    /\ session.timeout = DEFAULT_TIMEOUT
    /\ xbody = EmptyBody
    /\ xresult = NoExtract
    /\ calls = NoCalls
    /\ authorization = NoHeader
    /\ dep = NoDep

\* the variables of the single caller and of the extraction
single == <<pc, op, desc, attempts, backoff, firstSent, lastSent, lastResp,
            message, reason, nsleeps, lastSleep, outcome, returned, xbody, xresult>>

\* caller t enters _request
CallerStart(t) ==
    /\ calls[t].pc \in {"idle", "done"}
    /\ calls' = [calls EXCEPT ![t] = NewCall]
    /\ UNCHANGED <<session, single, authorization, dep>>

\* caller t performs one iteration of its loop
CallerAttempt(t) ==
    /\ calls[t].pc = "running"
    /\ \E resp \in ConcurrentResponses :
           calls' = [calls EXCEPT ![t] = Iterate(Locals(t), resp)]
    /\ UNCHANGED <<session, single, authorization, dep>>

ConcurrentNext ==
    \E t \in Callers :
        \/ CallerStart(t)
        \/ CallerAttempt(t)

ConcurrentSpec == ConcurrentInit /\ [][ConcurrentNext]_vars

-----------------------------------------------------------------------------
(* get_client on its own: the framework calls it once for a request *)

DepsInit ==
    /\ ClientInit
    /\ session.timeout = DEFAULT_TIMEOUT
    /\ xbody = EmptyBody
    /\ xresult = NoExtract
    /\ calls = NoCalls
    /\ authorization \in HeaderValues
    /\ dep = NoDep

CallGetClient ==
    /\ dep = NoDep
    /\ dep' = get_client(authorization)
    /\ UNCHANGED <<session, single, calls, authorization>>

DepsNext == CallGetClient

DepsSpec == DepsInit /\ [][DepsNext]_vars

-----------------------------------------------------------------------------
(* Error extraction on its own: the try/except block of _request applied   *)
(* to one error body of any shape.                                         *)

ExtractInit ==
    /\ ClientInit
    /\ session.timeout = DEFAULT_TIMEOUT
    /\ xbody \in ErrorBodies
    /\ xresult = NoExtract
    /\ calls = NoCalls
    /\ authorization = NoHeader
    /\ dep = NoDep

ExtractApply ==
    /\ ~xresult.done
    /\ xresult' = Extracted(xbody)
    /\ UNCHANGED <<session, pc, op, desc, attempts, backoff, firstSent, lastSent,
                   lastResp, message, reason, nsleeps, lastSleep, outcome,
                   returned, xbody, calls, authorization, dep>>

ExtractNext == ExtractApply

ExtractSpec == ExtractInit /\ [][ExtractNext]_vars

\* one iteration of the loop, whichever branch it takes
Attempt ==
    \/ AttemptSuccess
    \/ AttemptUnauthorized
    \/ AttemptRateLimited
    \/ AttemptServerError
    \/ AttemptOther

\* The calls of one caller who keeps issuing search_analytics_query
FairNext ==
    \/ search_analytics_query
    \/ Attempt

\* The transport always answers and time.sleep always returns: a call that
\* is inside the loop eventually performs its next iteration.
FairSpec == Init /\ [][FairNext]_vars /\ WF_vars(Attempt)

-----------------------------------------------------------------------------
(* Properties *)

\* status classes as the specification words them
SuccessStatus(status) == status \in 200..299

ServerErrorStatus(status) == status \in 500..599

Retryable(status) == status = 429 \/ ServerErrorStatus(status)

\* the delay the exponential schedule gives to the i-th retry sleep
Scheduled(i) == Min(2 ^ (i - 1), max_backoff)

\* a response has been received in the current call
Answered == attempts >= 1

\* C1: a call whose responses are all 429 or 5xx makes exactly 6 attempts
\* (never a 7th) and then raises RateLimitError or RetryableError with the
\* status and message of the 6th response.  (While a call runs, and when it
\* ends on a 429/5xx, every response it received was a 429 or a 5xx.)
C1_RetryCeiling ==
    /\ attempts <= MaxRetries + 1
    /\ (pc = "done" /\ Retryable(lastResp.status)) =>
          /\ attempts = MaxRetries + 1
          /\ outcome.type \in {"RateLimitError", "RetryableError"}
          /\ outcome.status = lastResp.status
          /\ outcome.message = ExtractMessage(lastResp.body)

\* C2: an attempt that receives 401 ends the call with AuthError whose text
\* is "Unauthorized: " followed by the message extracted from that response;
\* the call is over (no further attempt) and the only sleeps of the call are
\* those between the earlier attempts, so a 401 on the first attempt means
\* 1 attempt and 0 sleeps.
C2_Immediate401 ==
    (Answered /\ lastResp.status = 401) =>
        /\ pc = "done"
        /\ outcome.type = "AuthError"
        /\ outcome.prefix = "Unauthorized: "
        /\ outcome.message = ExtractMessage(lastResp.body)
        /\ nsleeps = attempts - 1
        /\ lastSent = firstSent

C2_Witness ==
    /\ pc = "done"
    /\ attempts = 1
    /\ nsleeps = 0
    /\ lastResp.status = 401
    /\ outcome.type = "AuthError"
    /\ outcome.message = JV("str", "rate limit")

\* C3: a retryable failure on one of the first 5 attempts never ends the
\* call, and a 2xx response on attempt k+1 ends it with Success equal to the
\* parsed body of that response after exactly k sleeps.
C3_Recovery ==
    /\ (Answered /\ Retryable(lastResp.status) /\ attempts <= MaxRetries) =>
          pc = "running"
    /\ (Answered /\ SuccessStatus(lastResp.status)) =>
          /\ pc = "done"
          /\ outcome.type = "Success"
          /\ outcome.value = IF HasContent(lastResp.body)
                             THEN Json(lastResp.body) ELSE EmptyMapping
          /\ nsleeps = attempts - 1

\* C4: the i-th retry sleep of a call lasts min(2^(i-1), 16), unless the
\* response that triggered it is a 429 with a numeric Retry-After header, and
\* then it lasts the header's value.  (While the call runs, the latest
\* response is the one that triggered the latest sleep, the nsleeps-th.)
C4_BackoffGrowth ==
    (pc = "running" /\ Answered) =>
        /\ nsleeps = attempts
        /\ nsleeps \in 1..MaxRetries
        /\ lastSleep = IF lastResp.status = 429 /\ lastResp.retry_after.k = "num"
                       THEN lastResp.retry_after.n
                       ELSE Scheduled(nsleeps)

C4_Witness ==
    /\ pc = "running"
    /\ nsleeps = 3
    /\ lastResp.status = 429
    /\ lastResp.retry_after = RA("num", RetryAfterSecs)
    /\ lastSleep = RetryAfterSecs
    /\ backoff = 8

\* C5: every call ends in a parsed success mapping or in one of the four
\* typed errors AuthError, RateLimitError, RetryableError, ApiError.
C5_ClosedOutcomes ==
    pc = "done" =>
        \/ outcome.type = "Success" /\ outcome.value.top = "obj"
        \/ outcome.type \in TypedErrors

\* C6: a 429 on one of the first 5 attempts whose Retry-After header is
\* absent or not a number makes the executor sleep for the current backoff,
\* double the backoff (capped) and go on to the next attempt.
C6_RetryAfterFallback ==
    (Answered /\ lastResp.status = 429 /\ attempts <= MaxRetries
        /\ lastResp.retry_after.k \in {"absent", "text"}) =>
        /\ pc = "running"
        /\ nsleeps = attempts
        /\ lastSleep = Scheduled(attempts)
        /\ backoff = Scheduled(attempts + 1)

\* C7 as stated: every terminal error of the four categories carries the
\* status of the failing response, the extracted message and the reason.
C7_AllErrorsCarryFields ==
    (pc = "done" /\ outcome.type \in TypedErrors) =>
        /\ {"args", "status", "reason"} \subseteq outcome.attrs
        /\ outcome.status = lastResp.status
        /\ outcome.message = ExtractMessage(lastResp.body)
        /\ outcome.reason = ExtractReason(lastResp.body)

\* C7 amended: RateLimitError, RetryableError and ApiError carry the status
\* of the failing response, the extracted message and the reason; AuthError
\* carries only its text, "Unauthorized: " followed by the extracted
\* message, and has no status and no reason field.
C7_ErrorFields ==
    /\ (pc = "done" /\ outcome.type \in TypedErrors \ {"AuthError"}) =>
          /\ {"args", "status", "reason"} \subseteq outcome.attrs
          /\ outcome.prefix = ""
          /\ outcome.status = lastResp.status
          /\ outcome.message = ExtractMessage(lastResp.body)
          /\ outcome.reason = ExtractReason(lastResp.body)
    /\ (pc = "done" /\ outcome.type = "AuthError") =>
          /\ outcome.attrs = {"args"}
          /\ outcome.prefix = "Unauthorized: "
          /\ outcome.message = ExtractMessage(lastResp.body)

C7_Witness ==
    /\ pc = "done"
    /\ outcome.type = "RateLimitError"
    /\ outcome.status = 429
    /\ outcome.message = JV("str", "rate limit")
    /\ outcome.reason = JV("str", "quota")

\* C8: a status that is not 2xx, 401, 429 or 5xx ends the call at once with
\* ApiError itself (not a subtype) carrying that status; no sleep follows the
\* response, so on a first attempt the call makes exactly 1 attempt.
C8_NonRetryable ==
    (Answered /\ ~SuccessStatus(lastResp.status) /\ lastResp.status # 401
        /\ ~Retryable(lastResp.status)) =>
        /\ pc = "done"
        /\ outcome.type = "ApiError"
        /\ outcome.status = lastResp.status
        /\ nsleeps = attempts - 1

C8_Witness ==
    /\ pc = "done"
    /\ attempts = 1
    /\ nsleeps = 0
    /\ lastResp.status = 404
    /\ outcome.type = "ApiError"
    /\ outcome.status = 404

\* C9: during a call the executor changes neither its descriptor nor the
\* session (headers, timeout), and every attempt hands the transport the
\* method, URL, JSON body and timeout it handed it on attempt 1.
C9_IdempotentDescriptor ==
    [][pc = "running" =>
          /\ desc' = desc
          /\ session' = session
          /\ lastSent' = firstSent'
          /\ (Answered => firstSent' = firstSent)
          /\ firstSent' = [method |-> desc.method, url |-> desc.url,
                           json |-> desc.json_body, timeout |-> session.timeout]]_vars

C9_Witness ==
    /\ attempts = MaxRetries + 1
    /\ desc.method = "POST"
    /\ desc.json_body = Payload
    /\ lastSent = firstSent
    /\ lastSent.json = Payload

\* a body that is not JSON, or is JSON but not an object
Unparseable(body) == body.kind # "json" \/ body.top # "obj"

\* C10: for a non-2xx response whose body is not JSON (or not a JSON
\* object) the message is the raw text and the reason None, and the call
\* goes on as the status dictates: AuthError for 401, a retry on the first 5
\* attempts and RateLimitError / RetryableError on the 6th for 429 / 5xx,
\* ApiError otherwise.
C10_GracefulDegradation ==
    (Answered /\ ~SuccessStatus(lastResp.status) /\ Unparseable(lastResp.body)) =>
        /\ message = Text(lastResp.body)
        /\ reason = None
        /\ IF Retryable(lastResp.status) /\ attempts <= MaxRetries
           THEN pc = "running"
           ELSE /\ pc = "done"
                /\ outcome.type =
                      CASE lastResp.status = 401 -> "AuthError"
                        [] lastResp.status = 429 -> "RateLimitError"
                        [] ServerErrorStatus(lastResp.status) -> "RetryableError"
                        [] OTHER -> "ApiError"
                /\ outcome.message = Text(lastResp.body)
                /\ outcome.reason = None

\* C11: a 2xx response ends the call on that attempt with Success: with an
\* empty body the value is the empty mapping, with a non-empty body it is the
\* parsed JSON mapping.
C11_SuccessBodies ==
    (Answered /\ SuccessStatus(lastResp.status)) =>
        /\ pc = "done"
        /\ outcome.type = "Success"
        /\ (lastResp.body.kind = "empty" => outcome.value = EmptyMapping)
        /\ (lastResp.body.kind # "empty" =>
               /\ outcome.value = Json(lastResp.body)
               /\ outcome.value.top = "obj")

\* C13: in every state of a call the backoff is one of 1, 2, 4, 8, 16; it
\* equals min(2^(n-1), 16) at the start of attempt n, whatever statuses and
\* Retry-After values came before; and no step of a call decreases it.
C13_BackoffSchedule ==
    /\ [](/\ backoff \in {1, 2, 4, 8, 16}
          /\ (pc = "running" => backoff = Scheduled(attempts + 1))
          /\ (pc = "done" => backoff = Scheduled(attempts)))
    /\ [][pc = "running" => backoff' >= backoff]_vars

C13_Witness ==
    /\ pc = "running"
    /\ attempts = 5
    /\ backoff = 16
    /\ lastResp.status = 429
    /\ lastSleep = RetryAfterSecs

\* C14: a 5xx response on one of the first 5 attempts is retried after a
\* sleep of the current backoff, whatever its Retry-After header, and the
\* backoff doubles (capped); a 5xx on the 6th attempt ends the call with
\* RetryableError of that status.
C14_ServerErrorIgnoresHeader ==
    (Answered /\ ServerErrorStatus(lastResp.status)) =>
        IF attempts <= 5
        THEN /\ pc = "running"
             /\ nsleeps = attempts
             /\ lastSleep = Scheduled(attempts)
             /\ backoff = Scheduled(attempts + 1)
        ELSE /\ attempts = 6
             /\ pc = "done"
             /\ outcome.type = "RetryableError"
             /\ outcome.status = lastResp.status

C14_Witness ==
    /\ pc = "running"
    /\ attempts = 2
    /\ lastResp.status = 500
    /\ lastResp.retry_after = RA("num", RetryAfterSecs)
    /\ lastSleep = 2
    /\ backoff = 4

\* the error class the status of the final response stands for
ClassOf(status) ==
    CASE status = 401 -> "AuthError"
      [] status = 429 -> "RateLimitError"
      [] ServerErrorStatus(status) -> "RetryableError"
      [] OTHER -> "ApiError"

\* C15: a call makes at most 6 attempts whatever mix of 429 and 5xx it gets;
\* a typed error that ends a call has the class of the status of the final
\* response alone; a 401 or another non-retryable status on any attempt gives
\* AuthError or ApiError, and a 429 or 5xx on the 6th attempt gives
\* RateLimitError or RetryableError, whatever the earlier responses were.
C15_HistoryFreeClassification ==
    /\ attempts <= 6
    /\ (pc = "done" /\ outcome.type \in TypedErrors) =>
          /\ outcome.type = ClassOf(lastResp.status)
          /\ (Retryable(lastResp.status) => attempts = 6)
    /\ (pc = "done" /\ ~SuccessStatus(lastResp.status)
           /\ (Retryable(lastResp.status) => attempts = 6)) =>
          outcome.type = ClassOf(lastResp.status)

\* a 5xx on the 6th attempt after a 429 whose Retry-After set the 5th sleep
C15_Witness ==
    /\ pc = "done"
    /\ attempts = 6
    /\ lastResp.status = 500
    /\ lastSleep = RetryAfterSecs
    /\ outcome.type = "RetryableError"

\* C19: within a call attempts and sleeps alternate, starting with an
\* attempt: every attempt starts with as many sleeps done as attempts made
\* (none before the first, one since the previous attempt), a sleep follows
\* an attempt exactly when another attempt follows, and a call that has ended
\* has slept attempts - 1 times.
C19_SleepAttemptOrdering ==
    /\ [](/\ (pc = "running" => nsleeps = attempts)
          /\ (pc = "done" => nsleeps = attempts - 1)
          /\ (pc = "idle" => nsleeps = 0 /\ attempts = 0))
    /\ [][pc = "running" =>
             /\ attempts' = attempts + 1
             /\ nsleeps' = IF pc' = "running" THEN nsleeps + 1 ELSE nsleeps]_vars
    /\ [][pc # "running" => attempts' = 0 /\ nsleeps' = 0]_vars

C19_Witness ==
    /\ pc = "done"
    /\ attempts = 3
    /\ nsleeps = 2
    /\ outcome.type = "Success"

\* C18: when every transport call returns a response and every sleep
\* returns, every call ends; no call makes more than 6 attempts or more than
\* 5 sleeps.
C18_Termination ==
    /\ [](attempts <= 6 /\ nsleeps <= 5)
    /\ (pc = "running" ~> pc = "done")

C18_Witness ==
    /\ pc = "done"
    /\ attempts = 6
    /\ nsleeps = 5
    /\ outcome.type = "RateLimitError"

\* C20: delete_sitemap_util returns {"status": "deleted"} exactly when the
\* underlying DELETE call ended in Success; when the call ended in an error,
\* that error reaches the caller unchanged and nothing is returned.
C20_DeleteUtil ==
    (pc = "done" /\ op = "delete_sitemap_util") =>
        /\ lastSent.method = "DELETE"
        /\ (returned = StatusDeleted <=> outcome.type = "Success")
        /\ (outcome.type # "Success" =>
               /\ returned.kind = "raise"
               /\ returned.what = outcome.type
               /\ returned.of = outcome)
        /\ (outcome.type = "Success" => SuccessStatus(lastResp.status))

\* the deletion is reported after a retry, on a 204 with an empty body
C20_Witness ==
    /\ pc = "done"
    /\ op = "delete_sitemap_util"
    /\ attempts = 2
    /\ lastResp.status = 204
    /\ lastResp.body.kind = "empty"
    /\ returned = StatusDeleted

\* a member that is present and a non-empty string
PresentNonEmpty(v) == v.k = "str" /\ v.s # ""

\* the message the precedence rule names for a body that is a JSON object
Precedence(body) ==
    IF body.error.k = "obj" /\ PresentNonEmpty(body.error.message)
    THEN body.error.message
    ELSE IF PresentNonEmpty(body.message)
         THEN body.message
         ELSE Text(body)

\* C16: for every error body that is a JSON object the message is the nested
\* error.message when present and non-empty, otherwise the top-level message
\* when present and non-empty, otherwise the raw text, whatever the shape of
\* the `error` member.
C16_MessagePrecedence ==
    (xresult.done /\ xbody.kind = "json" /\ xbody.top = "obj") =>
        xresult.message = Precedence(xbody)

\* the reason the rule names: the `reason` member of the first sub-error
ExpectedReason(body) ==
    IF /\ body.kind = "json"
       /\ body.top = "obj"
       /\ body.error.k = "obj"
       /\ body.error.errors.k = "list"
       /\ body.error.errors.len > 0
       /\ body.error.errors.first.k = "obj"
       /\ body.error.errors.first.reason.k # "absent"
    THEN body.error.errors.first.reason
    ELSE None

\* the same body without its `errors` member
WithoutErrors(body) == [body EXCEPT !.error.errors = NoErrors]

\* C17: the reason is the `reason` member of the first element of
\* error.errors when the body is a JSON object whose `error` is an object
\* with a non-empty list of sub-errors whose first element is an object, and
\* None in every other case; the message is the one extracted from the same
\* body without its sub-errors.
C17_ReasonExtraction ==
    xresult.done =>
        /\ xresult.reason = ExpectedReason(xbody)
        /\ xresult.message = Extracted(WithoutErrors(xbody)).message

C17_Witness ==
    /\ xresult.done
    /\ xbody.error.k = "obj"
    /\ xbody.error.errors.k = "list"
    /\ xbody.error.errors.first.k = "obj"
    /\ xresult.reason = JV("str", "quota")
    /\ xresult.message = JV("str", "nested")

\* what the locals of one call must be, given only that call's own attempt
\* count and latest response
OwnState(c) ==
    /\ (c.pc = "idle" => c = IdleCall)
    /\ (c.pc = "running" =>
          /\ c.nsleeps = c.attempts
          /\ c.backoff = Scheduled(c.attempts + 1)
          /\ (c.attempts >= 1 =>
                c.lastSleep =
                    IF c.lastResp.status = 429 /\ c.lastResp.retry_after.k = "num"
                    THEN c.lastResp.retry_after.n
                    ELSE Scheduled(c.attempts)))
    /\ (c.pc = "done" =>
          /\ c.nsleeps = c.attempts - 1
          /\ c.backoff = Scheduled(c.attempts)
          /\ (Retryable(c.lastResp.status) /\ c.attempts < 6 =>
                /\ c.lastResp.status = 429
                /\ \/ c.lastResp.retry_after.k = "text"
                   \/ c.lastResp.retry_after.k = "num" /\ c.lastResp.retry_after.n < 0)
          /\ c.outcome.type = IF SuccessStatus(c.lastResp.status)
                              THEN "Success"
                              ELSE IF Retryable(c.lastResp.status) /\ c.attempts < 6
                              THEN "ValueError"
                              ELSE ClassOf(c.lastResp.status))

\* C12: every call starts with attempts 0 (its first attempt is attempt 1)
\* and backoff 1, whatever the earlier calls on the client did; when the
\* calls of two callers interleave, a step of one caller changes neither the
\* other caller's locals nor the session, and the attempt count, backoff and
\* outcome of each call are determined by that call's own responses.
C12_IndependentCalls ==
    /\ [](\A t \in Callers : OwnState(calls[t]))
    /\ [][\A t \in Callers :
             calls'[t] # calls[t] =>
                /\ session' = session
                /\ \A u \in Callers \ {t} : calls'[u] = calls[u]
                /\ (calls[t].pc = "running" =>
                       calls'[t].attempts = calls[t].attempts + 1)
                /\ (calls[t].pc # "running" => calls'[t] = NewCall)]_vars

\* two calls in flight at different points of their schedules, the second
\* one started after an earlier call of the same caller had ended
C12_Witness ==
    /\ calls["caller1"].pc = "running"
    /\ calls["caller1"].attempts = 4
    /\ calls["caller1"].backoff = 16
    /\ calls["caller2"].pc = "running"
    /\ calls["caller2"].attempts = 1
    /\ calls["caller2"].backoff = 2

\* the positions of the characters of s that are not whitespace
Inked(s) == {i \in 1..Len(s) : s[i] \notin Whitespace}

\* w is the word "bearer" in any mix of upper and lower case
IsBearerWord(w) ==
    /\ Len(w) = 6
    /\ w[1] \in {"b", "B"}
    /\ w[2] \in {"e", "E"}
    /\ w[3] \in {"a", "A"}
    /\ w[4] \in {"r", "R"}
    /\ w[5] \in {"e", "E"}
    /\ w[6] \in {"r", "R"}

\* s is whitespace*, a word at a..b, whitespace+, a word at c..d, whitespace*
TwoWords(s, a, b, c, d) ==
    /\ 1 <= a /\ a <= b /\ b + 2 <= c /\ c <= d /\ d <= Len(s)
    /\ Inked(s) = (a..b) \cup (c..d)

\* the places where the second word of a two-word value with scheme
\* "bearer" starts: empty exactly when the value is not of that form
TokenStarts(value) ==
    IF ~value.present \/ Inked(value.s) = {}
    THEN {}
    ELSE LET s == value.s
             a == CHOOSE i \in Inked(s) : \A j \in Inked(s) : i <= j
             d == CHOOSE i \in Inked(s) : \A j \in Inked(s) : j <= i
         IN  {c \in 1..Len(s) :
                 /\ TwoWords(s, a, a + 5, c, d)
                 /\ IsBearerWord(SubSeq(s, a, a + 5))}

\* the second word of an accepted value
TokenOf(value) ==
    LET s == value.s
        d == CHOOSE i \in Inked(s) : \A j \in Inked(s) : j <= i
        c == CHOOSE i \in TokenStarts(value) : TRUE
    IN  SubSeq(s, c, d)

\* C21: get_client returns a client exactly when the header value is present,
\* non-empty and made of exactly two whitespace-separated words the first of
\* which is "bearer" in any case; the client's token is the second word
\* verbatim and its Authorization header is "Bearer " followed by it.  Every
\* other value raises an HTTPException with status 401 and no client exists;
\* the detail "Empty bearer token" is never raised.
C21_GetClient ==
    dep.kind # "none" =>
        /\ (TokenStarts(authorization) # {} =>
              /\ dep.kind = "client"
              /\ dep.client.token = TokenOf(authorization)
              /\ dep.client.token # << >>
              /\ dep.client.headers.Authorization = <<"Bearer ", TokenOf(authorization)>>)
        /\ (TokenStarts(authorization) = {} =>
              /\ dep.kind = "HTTPException"
              /\ dep.status_code = 401
              /\ dep.client = NoClient)
        /\ dep.detail # "Empty bearer token"

\* a value with leading whitespace, a mixed-case scheme and several
\* separators was accepted
C21_Witness ==
    /\ dep.kind = "client"
    /\ authorization.s = <<"\t", "b", "E", "A", "R", "E", "R", " ", "\t", "t", "0", "K">>
    /\ dep.client.token = <<"t", "0", "K">>

=============================================================================
